---- MODULE Spec2Model ----
(***************************************************************************)
(* Verification model of the vector-layer pipeline of WebViewer-V2:        *)
(* layers/models.py, layers/signals.py, layers/file_utils.py,              *)
(* layers/utils.py and the handlers of layers/views.py.                    *)
(*                                                                         *)
(* One request handler is one action: the handlers are synchronous and    *)
(* request-scoped, and the database runs in Django's default autocommit    *)
(* mode (no ATOMIC_REQUESTS setting is part of the sources), so every      *)
(* ORM call that returns has been committed.                               *)
(***************************************************************************)
EXTENDS Integers, Sequences, FiniteSets, TLC

(***************************************************************************)
(* Bounds of the model.                                                    *)
(***************************************************************************)
\* layers that may be created in one behaviour
MaxLayers == 2
\* highest primary key the feature table hands out in one behaviour
MaxRowId == 3
\* uploads stored in one behaviour (file handles are 1..MaxFiles)
MaxFiles == 1
\* scratch directories mkdtemp() hands out in one behaviour
MaxDirs == 2
\* rows of the largest dataset of the catalogue
MaxFileRows == 3
\* largest chunk_id a reader asks for
MaxChunkId == 3
\* workers that serve requests at the same time
MaxTasks == 2
\* primary keys of project_layer_data handed out while requests overlap
MaxTaskRowId == 5
\* batch_size of import_file_to_layer: 1000 in the source (file_utils.py:217),
\* scaled down so that an import of MaxFileRows rows needs several batches
batch_size == 2
\* chunk sizes of _get_chunk_size_for_layer: 500 / 2000 / 10000 in the source
\* (views.py:522, 524, 526 and 517), scaled down so that a layer of MaxRowId
\* features spans several chunks.  The order polygon < line < point is kept.
PolygonChunk == 1
LineChunk == 2
PointChunk == 3

\* buffer of ProjectLayerData.save: 0.0001 degree; coordinates of the model are
\* integers in units of 0.0001 degree
buffer == 1

(***************************************************************************)
(* Values.                                                                 *)
(***************************************************************************)
\* a DateTimeField is abstracted to unset / set
NullTime == "null"
SetTime == "set"

\* django.contrib.gis.geos geometries: type and coordinate list
Point(x, y) == [geom_type |-> "Point", coords |-> <<<<x, y>>>>]
LineString(a, b) == [geom_type |-> "LineString", coords |-> <<a, b>>]

P0 == Point(0, 0)
L0 == LineString(<<0, 0>>, <<6, 4>>)
\* geometries callers send
Geoms == {P0, L0}
\* a dataset row whose geometry is missing (row.geometry is None)
BadGeom == [geom_type |-> "None", coords |-> <<>>]

\* bbox column: NULL or a rectangle
NoBBox == [present |-> FALSE, minx |-> 0, miny |-> 0, maxx |-> 0, maxy |-> 0]
Box(x1, y1, x2, y2) == [present |-> TRUE, minx |-> x1, miny |-> y1, maxx |-> x2, maxy |-> y2]

\* feature_id column: NULL, a caller-supplied string, or str(uuid.uuid4())
NoFid == [kind |-> "none", v |-> 0]
CallerFid(n) == [kind |-> "caller", v |-> n]
Uuid(n) == [kind |-> "uuid", v |-> n]

SetMin(S) == CHOOSE m \in S : \A x \in S : m <= x
SetMax(S) == CHOOSE m \in S : \A x \in S : m >= x
Xs(g) == {g.coords[i][1] : i \in 1..Len(g.coords)}
Ys(g) == {g.coords[i][2] : i \in 1..Len(g.coords)}

\* GEOSGeometry.envelope: the axis-aligned bounding rectangle
envelope(g) == Box(SetMin(Xs(g)), SetMin(Ys(g)), SetMax(Xs(g)), SetMax(Ys(g)))

\* the bounding box ProjectLayerData.save computes
compute_bbox(g) ==
    IF g.geom_type = "Point"
    THEN LET x == g.coords[1][1]
             y == g.coords[1][2]
         IN Box(x - buffer, y - buffer, x + buffer, y + buffer)
    ELSE envelope(g)

\* every coordinate of g lies in the rectangle b
Covers(b, g) ==
    /\ b.present
    /\ \A i \in 1..Len(g.coords) :
          /\ b.minx <= g.coords[i][1] /\ g.coords[i][1] <= b.maxx
          /\ b.miny <= g.coords[i][2] /\ g.coords[i][2] <= b.maxy

(***************************************************************************)
(* Reference tables the pipeline only reads: layer groups and layer types. *)
(***************************************************************************)
Groups == {1}
\* LayerType rows: id -> type_name
LayerTypes == <<"Polygon", "LineString", "Point Layer">>
LayerTypeIds == 1..Len(LayerTypes)
\* request values of group_id / layer_type_id that reference no record
NoSuchId == Len(LayerTypes) + 1
\* layer_type_id absent from the request (None)
NoType == 0
LayerNames == {"roads", "parcels"}

(***************************************************************************)
(* State.                                                                  *)
(***************************************************************************)
VARIABLES
    layers,       \* table project_layers: sequence, primary key = index
    rows,         \* table project_layer_data, in insertion order
    next_row_id,  \* next primary key of project_layer_data
    files,        \* default_storage: the stored uploads
    next_file_id, \* next file handle store_uploaded_file hands out
    temp_dirs,    \* scratch directories that exist
    next_dir,     \* next name tempfile.mkdtemp() hands out
    scan,         \* the chunks a reader has collected since chunk 1
    resp,         \* the last request and its response
    tasks         \* the requests in flight, one slot per worker

vars == <<layers, rows, next_row_id, files, next_file_id, temp_dirs, next_dir, scan, resp, tasks>>

\* the response record, all fields at their "absent" value
R0 == [op |-> "none", status |-> 0, error |-> "", layer |-> 0, count |-> -1,
       file |-> 0, batches |-> 0, failed_batch |-> 0, imported |-> 0,
       auth |-> FALSE, chunk_ok |-> FALSE, chunk_id |-> 0, features |-> <<>>,
       features_count |-> -1, total_count |-> -1, next_chunk |-> 0,
       queries |-> 0, dir |-> 0, has_crs |-> FALSE, can_view |-> FALSE]

NoScan == [layer |-> 0, next |-> 0, got |-> <<>>, done |-> FALSE]

LayerIds == 1..Len(layers)

\* the worker slots that serve requests side by side
Tasks == 1..MaxTasks

\* a ProjectLayer instance no request has loaded
NoObj == [project_layer_group |-> 0, layer_type |-> 0, name |-> "", is_public |-> FALSE,
          feature_count |-> 0, last_data_update |-> NullTime,
          upload_status |-> "pending", upload_error |-> ""]

\* a worker that serves no request.  kind and pc say which handler runs and
\* where it stands; obj is the ProjectLayer instance the handler holds in
\* memory; ins, del and row are the uncommitted writes of its transaction
\* (rows inserted, primary keys deleted, its version of the layer row) and
\* holds says that it has the row lock of its layer
Idle == [kind |-> "idle", pc |-> "idle", layer |-> 0, obj |-> NoObj,
         content |-> <<>>, source_crs |-> "", features |-> <<>>, done |-> 0, fail_at |-> 0,
         msg |-> "", ins |-> <<>>, del |-> {}, holds |-> FALSE, row |-> NoObj,
         count |-> -1, chunk_id |-> 0, total |-> -1, next |-> -1]

(***************************************************************************)
(* layers/models.py                                                        *)
(***************************************************************************)
\* layer.features.count()
CountRows(R, lid) == Cardinality({i \in 1..Len(R) : R[i].project_layer = lid})

\* ProjectLayer.update_feature_count
update_feature_count(L, R, lid) ==
    [L EXCEPT ![lid].feature_count = CountRows(R, lid),
              ![lid].last_data_update = SetTime]

\* signals.update_layer_on_feature_save (post_save of a feature)
update_layer_on_feature_save(L, lid) ==
    [L EXCEPT ![lid].last_data_update = SetTime]

\* signals.update_layer_on_feature_delete (post_delete of a feature)
update_layer_on_feature_delete(L, R, lid) ==
    [L EXCEPT ![lid].last_data_update = SetTime,
              ![lid].feature_count = CountRows(R, lid)]

\* "if not self.feature_id: self.feature_id = str(uuid.uuid4())"
save_feature_id(fid, n) == IF fid.kind = "none" THEN Uuid(n) ELSE fid

\* "if self.geometry and not self.bbox: ..." (geometry is a NOT NULL column)
save_bbox(geometry, bbox) == IF ~bbox.present THEN compute_bbox(geometry) ELSE bbox

\* position of the row with primary key id, 0 if there is none
RowIndex(R, id) ==
    IF \E i \in 1..Len(R) : R[i].id = id
    THEN CHOOSE i \in 1..Len(R) : R[i].id = id
    ELSE 0

\* INSERT (a new primary key) or UPDATE (an existing one) of one row
Upsert(R, row) ==
    IF RowIndex(R, row.id) = 0 THEN Append(R, row)
    ELSE [R EXCEPT ![RowIndex(R, row.id)] = row]

\* ProjectLayerData.save: fill feature_id and bbox, write the row, run the
\* post_save receiver, then refresh the count of the row's (current) layer
ProjectLayerData_save(L, R, row) ==
    LET r2 == [row EXCEPT !.feature_id = save_feature_id(row.feature_id, row.id),
                          !.bbox = save_bbox(row.geometry, row.bbox)]
        R2 == Upsert(R, r2)
        L2 == update_layer_on_feature_save(L, r2.project_layer)
    IN [layers |-> update_feature_count(L2, R2, r2.project_layer), rows |-> R2]

\* the rows of R without those whose primary key is in ids
RECURSIVE Without(_, _)
Without(R, ids) ==
    IF R = <<>> THEN <<>>
    ELSE IF Head(R).id \in ids THEN Without(Tail(R), ids)
         ELSE <<Head(R)>> \o Without(Tail(R), ids)

\* Model.delete of one feature: DELETE, then the post_delete receiver
ProjectLayerData_delete(L, R, id) ==
    LET lid == R[RowIndex(R, id)].project_layer
        R2 == Without(R, {id})
    IN [layers |-> update_layer_on_feature_delete(L, R2, lid), rows |-> R2]

(***************************************************************************)
(* Uploaded bytes.  A content is what an upload holds: a zip archive or a   *)
(* plain dataset file.  For an archive, shp says where its .shp member is   *)
(* ("top" level, "nested" in a folder, "none"); readable, crs and rows      *)
(* describe the dataset (of the archive: its .shp member).                  *)
(***************************************************************************)
Content(archive, valid_zip, shp, readable, crs, rs) ==
    [archive |-> archive, valid_zip |-> valid_zip, shp |-> shp,
     readable |-> readable, crs |-> crs, rows |-> rs]

\* MaxFileRows rows, all with a geometry, declared EPSG:4326
BigFile == Content(FALSE, FALSE, "none", TRUE, "EPSG:4326",
                   [i \in 1..MaxFileRows |-> IF i % 2 = 1 THEN P0 ELSE L0])
\* no CRS declared, one row without geometry
NoCrsFile == Content(FALSE, FALSE, "none", TRUE, "none", <<P0, BadGeom>>)
\* bytes no driver can read
CorruptFile == Content(FALSE, FALSE, "none", FALSE, "none", <<>>)
\* declared in another CRS than the target
MercatorFile == Content(FALSE, FALSE, "none", TRUE, "EPSG:3857", <<L0>>)
ZipOk == Content(TRUE, TRUE, "top", TRUE, "EPSG:4326", <<P0>>)
ZipNested == Content(TRUE, TRUE, "nested", TRUE, "none", <<P0>>)
ZipCorrupt == Content(TRUE, FALSE, "none", FALSE, "none", <<>>)
ZipNoShp == Content(TRUE, TRUE, "none", FALSE, "none", <<>>)
ZipBadShp == Content(TRUE, TRUE, "top", FALSE, "none", <<>>)

PlainContents == {BigFile, NoCrsFile, CorruptFile, MercatorFile}
ZipContents == {ZipOk, ZipNested, ZipCorrupt, ZipNoShp, ZipBadShp}

\* CRS strings a caller sends; "bogus" is no CRS pyproj can parse
NoCrs == "none"
ValidCrs == {"EPSG:4326", "EPSG:3857"}

(***************************************************************************)
(* layers/file_utils.py                                                    *)
(***************************************************************************)
\* a detection that takes every unknown suffix for a shapefile
detect_file_type_lenient(suffix) ==
    IF suffix = "kml" THEN "kml"
    ELSE IF suffix = "sqlite" THEN "sqlite"
    ELSE "shp"

\* detect_file_type: by the suffix of the lower-cased file name
detect_file_type(suffix) ==
    IF suffix = "shp" \/ suffix = "zip" THEN "shp"
    ELSE IF suffix = "kml" THEN "kml"
    ELSE IF suffix = "sqlite" THEN "sqlite"
    ELSE "None"

\* store_uploaded_file: the working file is named "<file_id>.<file_type>"
store_uploaded_file(fid, file_type, content) ==
    [file_id |-> fid, ext |-> file_type, content |-> content]

\* os.path.join(upload_dir, f"{file_id}.{file_type}") names a stored file
StoredAt(F, fid, file_type) == {f \in F : f.file_id = fid /\ f.ext = file_type}

\* gpd.read_file on bytes: a zip archive handed over under a name that does
\* not end in .zip is not unpacked and is no dataset; nor is a corrupt file
read_file(c) ==
    IF c.archive \/ ~c.readable
    THEN [ok |-> FALSE, error |-> "read_error", crs |-> NoCrs, rows |-> <<>>]
    ELSE [ok |-> TRUE, error |-> "", crs |-> c.crs, rows |-> c.rows]

\* gpd.read_file(shp_files[0]) on the extracted .shp member of an archive
read_member(c) == read_file([c EXCEPT !.archive = FALSE])

\* shutil.rmtree(d): removes d, raises FileNotFoundError if d is gone
rmtree(D, d) ==
    IF d \in D THEN [ok |-> TRUE, dirs |-> D \ {d}]
    ELSE [ok |-> FALSE, dirs |-> D]

\* lines 29-45 of get_crs_from_file, for a path ending in .zip.  The except
\* clause removes the directory and returns; the finally clause then removes
\* it a second time, and that FileNotFoundError replaces the return value.
get_crs_extract(D, d, c) ==
    LET D1 == D \cup {d}
        failed == ~c.valid_zip \/ (c.shp # "none" /\ ~read_member(c).ok)
        inExcept == IF failed THEN rmtree(D1, d).dirs ELSE D1
        final == rmtree(inExcept, d)
    IN IF failed
       THEN [dirs |-> final.dirs, ret |-> TRUE, gdf |-> read_file(CorruptFile),
             msg |-> IF final.ok THEN "Error reading shapefile" ELSE "No such file or directory"]
       ELSE IF c.shp = "none"
       THEN [dirs |-> final.dirs, ret |-> TRUE, gdf |-> read_file(CorruptFile),
             msg |-> "No .shp file found in zip archive"]
       ELSE [dirs |-> final.dirs, ret |-> FALSE, gdf |-> read_member(c), msg |-> ""]

\* get_crs_from_file(file_path, file_type): (crs_found, crs_auth_code, crs_name)
\* ext is the suffix of file_path, c the bytes at file_path, d a fresh
\* directory name for mkdtemp
get_crs_from_file(D, d, ext, c, file_type) ==
    LET zip == file_type = "shp" /\ ext = "zip"
        x == get_crs_extract(D, d, c)
        gdf == IF zip THEN x.gdf ELSE read_file(c)
        dirs == IF zip THEN x.dirs ELSE D
        made == IF zip THEN d ELSE 0
        No(msg) == [has_crs |-> FALSE, code |-> NoCrs, name |-> msg, dirs |-> dirs, dir |-> made]
    IN IF file_type \notin {"shp", "kml", "sqlite"} THEN No("Unsupported file type")
       ELSE IF zip /\ x.ret THEN No(x.msg)
       ELSE IF ~gdf.ok THEN No(gdf.error)
       ELSE IF gdf.crs = NoCrs THEN No("No CRS defined in file")
       ELSE [has_crs |-> TRUE, code |-> gdf.crs, name |-> gdf.crs, dirs |-> dirs, dir |-> made]

\* import_open that removes the scratch directory after a successful read only
import_open_leak(D, d, ext, c, file_type) ==
    LET zip == file_type = "shp" /\ ext = "zip"
        Fail(msg, dirs) == [gdf |-> [ok |-> FALSE, error |-> msg, crs |-> NoCrs, rows |-> <<>>],
                            dirs |-> dirs, dir |-> IF zip THEN d ELSE 0]
    IN IF file_type \notin {"shp", "kml", "sqlite"} THEN Fail("Unsupported file type", D)
       ELSE IF ~zip THEN [gdf |-> read_file(c), dirs |-> D, dir |-> 0]
       ELSE IF ~c.valid_zip THEN Fail("File is not a zip file", D \cup {d})
       ELSE IF c.shp = "none" THEN Fail("No .shp file found in zip archive", D \cup {d})
       ELSE [gdf |-> read_member(c), dirs |-> rmtree(D \cup {d}, d).dirs, dir |-> d]

\* lines 143-175 of import_file_to_layer: open the dataset.  For a path ending
\* in .zip the archive is unpacked into a scratch directory that the finally
\* clause removes.
import_open(D, d, ext, c, file_type) ==
    LET zip == file_type = "shp" /\ ext = "zip"
        Fail(msg, dirs) == [gdf |-> [ok |-> FALSE, error |-> msg, crs |-> NoCrs, rows |-> <<>>],
                            dirs |-> dirs, dir |-> IF zip THEN d ELSE 0]
        cleaned == rmtree(D \cup {d}, d).dirs
    IN IF file_type \notin {"shp", "kml", "sqlite"} THEN Fail("Unsupported file type", D)
       ELSE IF ~zip THEN [gdf |-> read_file(c), dirs |-> D, dir |-> 0]
       ELSE IF ~c.valid_zip THEN Fail("File is not a zip file", cleaned)
       ELSE IF c.shp = "none" THEN Fail("No .shp file found in zip archive", cleaned)
       ELSE [gdf |-> read_member(c), dirs |-> cleaned, dir |-> d]

\* GeoDataFrame.to_crs: identity between equal systems, otherwise the
\* coordinates change (here: halved, a stand-in for the projection)
to_crs(g, src, dst) ==
    IF src = dst \/ g.geom_type = "None" THEN g
    ELSE [g EXCEPT !.coords = [i \in 1..Len(g.coords) |->
                                  <<g.coords[i][1] \div 2, g.coords[i][2] \div 2>>]]

\* import_crs that takes a dataset without CRS to be in the target CRS
import_crs_assume_target(gdf, source_crs, target_crs) ==
    LET assigned == IF gdf.crs = NoCrs
                    THEN (IF source_crs # NoCrs THEN source_crs ELSE target_crs)
                    ELSE gdf.crs
    IN IF ~gdf.ok THEN gdf
       ELSE IF assigned \notin ValidCrs THEN [gdf EXCEPT !.ok = FALSE, !.error = "Invalid projection"]
       ELSE IF assigned # target_crs /\ target_crs \notin ValidCrs
       THEN [gdf EXCEPT !.ok = FALSE, !.error = "Invalid projection"]
       ELSE [gdf EXCEPT !.crs = target_crs,
                        !.rows = [i \in 1..Len(gdf.rows) |-> to_crs(gdf.rows[i], assigned, target_crs)]]

\* lines 177-187: settle the CRS of the opened dataset and reproject it
import_crs(gdf, source_crs, target_crs) ==
    LET assigned == IF source_crs # NoCrs /\ gdf.crs = NoCrs THEN source_crs ELSE gdf.crs
    IN IF ~gdf.ok THEN gdf
       ELSE IF assigned \notin ValidCrs \cup {NoCrs}
       THEN [gdf EXCEPT !.ok = FALSE, !.error = "Invalid projection"]
       ELSE IF assigned = NoCrs
       THEN [gdf EXCEPT !.ok = FALSE, !.error = "No CRS defined in file and none provided"]
       ELSE IF assigned # target_crs /\ target_crs \notin ValidCrs
       THEN [gdf EXCEPT !.ok = FALSE, !.error = "Invalid projection"]
       ELSE [gdf EXCEPT !.crs = target_crs,
                        !.rows = [i \in 1..Len(gdf.rows) |-> to_crs(gdf.rows[i], assigned, target_crs)]]

\* lines 190-214: one unsaved ProjectLayerData per row; a row whose geometry
\* cannot be converted is skipped
RECURSIVE import_features(_, _)
import_features(rs, lid) ==
    IF rs = <<>> THEN <<>>
    ELSE IF Head(rs).geom_type = "None" THEN import_features(Tail(rs), lid)
    ELSE <<[id |-> 0, project_layer |-> lid, geometry |-> Head(rs),
            bbox |-> NoBBox, feature_id |-> NoFid]>> \o import_features(Tail(rs), lid)

\* range(0, len(features), batch_size): the number of batches
NumBatches(n) == (n + batch_size - 1) \div batch_size

\* ProjectLayerData.objects.bulk_create(batch): INSERT with fresh primary keys;
\* neither save() nor the post_save receiver runs
bulk_create(R, nrid, batch) ==
    R \o [i \in 1..Len(batch) |-> [batch[i] EXCEPT !.id = nrid + i - 1]]

\* lines 216-220: the batches 1..upto of features, submitted in sequence
RECURSIVE import_batches(_, _, _, _)
import_batches(R, nrid, features, upto) ==
    IF upto = 0 THEN R
    ELSE LET lo == (upto - 1) * batch_size + 1
             hi == IF upto * batch_size < Len(features) THEN upto * batch_size ELSE Len(features)
             before == import_batches(R, nrid, features, upto - 1)
         IN bulk_create(before, nrid + lo - 1, SubSeq(features, lo, hi))

\* import_success that counts the rows of the dataset, skipped ones included
import_success_all_rows(layer, features_count) ==
    [layer EXCEPT !.feature_count = features_count + 1,
                  !.last_data_update = SetTime,
                  !.upload_status = "complete"]

\* lines 222-227: the statistics written after the last batch
import_success(layer, features_count) ==
    [layer EXCEPT !.feature_count = features_count,
                  !.last_data_update = SetTime,
                  !.upload_status = "complete"]

\* import_failure that stores the message and forgets the status
import_failure_keeps_status(layer, msg) ==
    [layer EXCEPT !.upload_error = msg]

\* lines 231-235: the except clause
import_failure(layer, msg) ==
    [layer EXCEPT !.upload_status = "failed", !.upload_error = msg]

\* import_file_to_layer(layer, file_path, file_type, source_crs, target_crs).
\* fail_at is the batch on which storage raises (0: storage never raises).
import_file_to_layer(L, R, nrid, D, d, lid, ext, c, file_type, source_crs, target_crs, fail_at) ==
    LET opened == import_open(D, d, ext, c, file_type)
        gdf == import_crs(opened.gdf, source_crs, target_crs)
        features == IF gdf.ok THEN import_features(gdf.rows, lid) ELSE <<>>
        nb == NumBatches(Len(features))
        storageFails == gdf.ok /\ fail_at \in 1..nb
        done == IF ~gdf.ok THEN 0 ELSE IF storageFails THEN fail_at - 1 ELSE nb
        R2 == import_batches(R, nrid, features, done)
        msg == IF ~gdf.ok THEN gdf.error ELSE IF storageFails THEN "storage error" ELSE ""
        ok == gdf.ok /\ ~storageFails
    IN [layers |-> [L EXCEPT ![lid] = IF ok THEN import_success(L[lid], Len(features))
                                      ELSE import_failure(L[lid], msg)],
        rows |-> R2,
        next_row_id |-> nrid + (Len(R2) - Len(R)),
        dirs |-> opened.dirs, dir |-> opened.dir,
        success |-> ok,
        count |-> IF ok THEN Len(features) ELSE 0,
        error |-> msg,
        batches |-> IF storageFails THEN fail_at ELSE done,
        failed_batch |-> IF storageFails THEN fail_at ELSE 0,
        imported |-> Len(R2) - Len(R),
        needs |-> IF gdf.ok THEN Len(features) ELSE 0]

(***************************************************************************)
(* Initial state: an empty database, no stored upload, no scratch          *)
(* directory.                                                              *)
(***************************************************************************)
Init ==
    /\ layers = <<>>
    /\ rows = <<>>
    /\ next_row_id = 1
    /\ files = {}
    /\ next_file_id = 1
    /\ temp_dirs = {}
    /\ next_dir = 1
    /\ scan = NoScan
    /\ resp = R0
    /\ tasks = [t \in Tasks |-> Idle]

(***************************************************************************)
(* layers/views.py: ProjectLayerViewSet and ProjectLayerDataViewSet        *)
(***************************************************************************)
NewLayer(g, t, name, public, status) ==
    [project_layer_group |-> g, layer_type |-> t, name |-> name, is_public |-> public,
     feature_count |-> 0, last_data_update |-> NullTime,
     upload_status |-> status, upload_error |-> ""]

\* unique_together = ('project_layer_group', 'name')
NameTaken(L, g, name) ==
    \E l \in 1..Len(L) : L[l].project_layer_group = g /\ L[l].name = name

\* POST /layers/ (ProjectLayerViewSet.perform_create).  The serializer has no
\* is_public / upload_status field: the model defaults apply.
CreateLayer(g, t, name) ==
    /\ Len(layers) < MaxLayers
    /\ IF NameTaken(layers, g, name)
       THEN /\ resp' = [R0 EXCEPT !.op = "create_layer", !.status = 400]
            /\ UNCHANGED layers
       ELSE /\ layers' = Append(layers, NewLayer(g, t, name, FALSE, "pending"))
            /\ resp' = [R0 EXCEPT !.op = "create_layer", !.status = 201,
                                  !.layer = Len(layers) + 1]
    /\ scan' = NoScan
    /\ UNCHANGED <<rows, next_row_id, files, next_file_id, temp_dirs, next_dir>>
    /\ UNCHANGED tasks

\* POST /features/ (ProjectLayerDataViewSet.perform_create): serializer.save()
\* runs ProjectLayerData.save, then the view refreshes the count again
FeatureCreate(lid, geom, fid) ==
    /\ lid \in LayerIds
    /\ next_row_id <= MaxRowId
    /\ LET row == [id |-> next_row_id, project_layer |-> lid, geometry |-> geom,
                   bbox |-> NoBBox, feature_id |-> fid]
           db == ProjectLayerData_save(layers, rows, row)
       IN /\ rows' = db.rows
          /\ layers' = update_feature_count(db.layers, db.rows, lid)
    /\ next_row_id' = next_row_id + 1
    /\ resp' = [R0 EXCEPT !.op = "feature_create", !.status = 201, !.layer = lid]
    /\ scan' = NoScan
    /\ UNCHANGED <<files, next_file_id, temp_dirs, next_dir>>
    /\ UNCHANGED tasks

\* PUT /features/<id>/ (ModelViewSet.perform_update = serializer.save()):
\* project_layer and geometry are writable fields of FeatureSerializer
FeatureUpdate(id, lid, geom) ==
    /\ RowIndex(rows, id) # 0
    /\ lid \in LayerIds
    /\ LET old == rows[RowIndex(rows, id)]
           row == [old EXCEPT !.project_layer = lid, !.geometry = geom]
           db == ProjectLayerData_save(layers, rows, row)
       IN /\ row # old
          /\ rows' = db.rows
          /\ layers' = db.layers
    /\ resp' = [R0 EXCEPT !.op = "feature_update", !.status = 200, !.layer = lid]
    /\ scan' = NoScan
    /\ UNCHANGED <<next_row_id, files, next_file_id, temp_dirs, next_dir>>
    /\ UNCHANGED tasks

\* DELETE /features/<id>/ (ProjectLayerDataViewSet.perform_destroy)
FeatureDelete(id) ==
    /\ RowIndex(rows, id) # 0
    /\ LET lid == rows[RowIndex(rows, id)].project_layer
           db == ProjectLayerData_delete(layers, rows, id)
       IN /\ rows' = db.rows
          /\ layers' = update_feature_count(db.layers, db.rows, lid)
          /\ resp' = [R0 EXCEPT !.op = "feature_delete", !.status = 204, !.layer = lid]
    /\ scan' = NoScan
    /\ UNCHANGED <<next_row_id, files, next_file_id, temp_dirs, next_dir>>
    /\ UNCHANGED tasks

\* POST /layers/<id>/clear_data/ (ProjectLayerViewSet.clear_data): the queryset
\* delete runs the post_delete receiver per row, then the view writes count 0
ClearData(lid) ==
    /\ lid \in LayerIds
    /\ LET gone == {rows[i].id : i \in {j \in 1..Len(rows) : rows[j].project_layer = lid}}
           R2 == Without(rows, gone)
           L2 == IF gone = {} THEN layers ELSE update_layer_on_feature_delete(layers, R2, lid)
       IN /\ rows' = R2
          /\ layers' = [L2 EXCEPT ![lid].last_data_update = SetTime,
                                  ![lid].feature_count = 0]
          /\ resp' = [R0 EXCEPT !.op = "clear_data", !.status = 200, !.layer = lid,
                                !.count = Cardinality(gone)]
    /\ scan' = NoScan
    /\ UNCHANGED <<next_row_id, files, next_file_id, temp_dirs, next_dir>>
    /\ UNCHANGED tasks

\* the loop of import_geojson over the features of the body.  The handler
\* returns from inside "with transaction.atomic()" on the first feature it
\* cannot import: leaving the block by return commits what was created.
RECURSIVE geojson_loop(_, _, _, _, _, _)
geojson_loop(L, R, nrid, lid, feats, created) ==
    IF feats = <<>> THEN [layers |-> L, rows |-> R, next_row_id |-> nrid,
                          created |-> created, failed |-> FALSE]
    ELSE IF Head(feats).geometry.geom_type = "None"
    THEN [layers |-> L, rows |-> R, next_row_id |-> nrid, created |-> created, failed |-> TRUE]
    ELSE LET row == [id |-> nrid, project_layer |-> lid, geometry |-> Head(feats).geometry,
                     bbox |-> NoBBox, feature_id |-> Head(feats).id]
             db == ProjectLayerData_save(L, R, row)
         IN geojson_loop(db.layers, db.rows, nrid + 1, lid, Tail(feats), created + 1)

\* POST /layers/<id>/import_geojson/ (ProjectLayerViewSet.import_geojson)
ImportGeoJSON(lid, type, feats) ==
    /\ lid \in LayerIds
    /\ geojson_loop(layers, rows, next_row_id, lid, feats, 0).next_row_id - 1 <= MaxRowId
    /\ IF type # "FeatureCollection"
       THEN /\ resp' = [R0 EXCEPT !.op = "import_geojson", !.status = 400, !.layer = lid,
                                  !.error = "Invalid GeoJSON: Not a FeatureCollection"]
            /\ UNCHANGED <<layers, rows, next_row_id>>
       ELSE LET db == geojson_loop(layers, rows, next_row_id, lid, feats, 0)
            IN /\ rows' = db.rows
               /\ next_row_id' = db.next_row_id
               /\ IF db.failed
                  THEN /\ layers' = db.layers
                       /\ resp' = [R0 EXCEPT !.op = "import_geojson", !.status = 400,
                                             !.layer = lid, !.imported = db.created,
                                             !.error = "Error importing feature"]
                  ELSE /\ layers' = update_feature_count(db.layers, db.rows, lid)
                       /\ resp' = [R0 EXCEPT !.op = "import_geojson", !.status = 200,
                                             !.layer = lid, !.imported = db.created,
                                             !.count = CountRows(db.rows, lid)]
    /\ scan' = NoScan
    /\ UNCHANGED <<files, next_file_id, temp_dirs, next_dir>>
    /\ UNCHANGED tasks

\* POST /upload/ (FileUploadView.post)
FileUpload(suffix, content) ==
    LET file_type == detect_file_type(suffix)
        crs == get_crs_from_file(temp_dirs, next_dir, file_type, content, file_type)
    IN /\ next_file_id <= MaxFiles
       /\ IF file_type = "None"
          THEN /\ resp' = [R0 EXCEPT !.op = "upload", !.status = 400,
                                     !.error = "Unsupported file type"]
               /\ UNCHANGED <<files, next_file_id, temp_dirs, next_dir>>
          ELSE /\ files' = files \cup {store_uploaded_file(next_file_id, file_type, content)}
               /\ next_file_id' = next_file_id + 1
               /\ temp_dirs' = crs.dirs
               /\ next_dir' = IF crs.dir # 0 THEN next_dir + 1 ELSE next_dir
               /\ resp' = [R0 EXCEPT !.op = "upload", !.status = 200, !.file = next_file_id,
                                     !.has_crs = crs.has_crs, !.error = crs.name,
                                     !.dir = crs.dir]
       /\ scan' = NoScan
       /\ UNCHANGED <<layers, rows, next_row_id>>
       /\ UNCHANGED tasks

\* a lookup of the layer group that finds a row for every id
group_exists_any(g) == TRUE

\* ProjectLayerGroup.objects.get(id=group_id) finds a row
group_exists(g) == g \in Groups

\* POST /complete_upload/ (CompleteUploadView.post).  t = NoType is a request
\* without layer_type_id: ProjectLayer.layer_type is a NOT NULL foreign key, so
\* objects.create raises IntegrityError, as it does for a (group, name) that
\* exists; both end in the handler's "except Exception" with no layer created.
CompleteUpload(fid, file_type, g, name, t, source_crs, target_crs, public, fail_at) ==
    LET stored == StoredAt(files, fid, file_type)
        f == CHOOSE x \in stored : TRUE
        lid == Len(layers) + 1
        L1 == Append(layers, NewLayer(g, t, name, public, "importing"))
        imp == import_file_to_layer(L1, rows, next_row_id, temp_dirs, next_dir, lid,
                                    f.ext, f.content, file_type, source_crs, target_crs, fail_at)
        Answer(status, msg) == [R0 EXCEPT !.op = "complete_upload", !.status = status,
                                          !.error = msg, !.file = fid]
    IN /\ IF stored = {}
          THEN /\ resp' = Answer(404, "File not found. It may have expired.")
               /\ UNCHANGED <<layers, rows, next_row_id, files, temp_dirs, next_dir>>
          ELSE IF ~group_exists(g)
          THEN /\ resp' = Answer(404, "Layer group not found")
               /\ UNCHANGED <<layers, rows, next_row_id, files, temp_dirs, next_dir>>
          ELSE IF t # NoType /\ t \notin LayerTypeIds
          THEN /\ resp' = Answer(404, "Layer type not found")
               /\ UNCHANGED <<layers, rows, next_row_id, files, temp_dirs, next_dir>>
          ELSE IF t = NoType \/ NameTaken(layers, g, name)
          THEN /\ resp' = Answer(500, "IntegrityError")
               /\ UNCHANGED <<layers, rows, next_row_id, files, temp_dirs, next_dir>>
          ELSE /\ Len(layers) < MaxLayers
               /\ next_row_id + imp.needs - 1 <= MaxRowId
               /\ imp.dir # 0 => next_dir <= MaxDirs
               /\ layers' = imp.layers
               /\ rows' = imp.rows
               /\ next_row_id' = imp.next_row_id
               /\ temp_dirs' = imp.dirs
               /\ next_dir' = IF imp.dir # 0 THEN next_dir + 1 ELSE next_dir
               /\ files' = IF imp.success THEN files \ stored ELSE files
               /\ resp' = [Answer(IF imp.success THEN 200 ELSE 500, imp.error)
                              EXCEPT !.layer = lid,
                                     !.count = IF imp.success THEN imp.count ELSE -1,
                                     !.batches = imp.batches,
                                     !.failed_batch = imp.failed_batch,
                                     !.imported = imp.imported,
                                     !.dir = imp.dir]
       /\ scan' = NoScan
       /\ UNCHANGED next_file_id
       /\ UNCHANGED tasks

(***************************************************************************)
(* layers/views.py: LayerDataView (GET /data/<layer_id>/?chunk_id=c)       *)
(***************************************************************************)
\* str.lower() on the type names of the LayerType table
lower(s) ==
    CASE s = "Polygon" -> "polygon"
      [] s = "LineString" -> "linestring"
      [] s = "Point Layer" -> "point layer"
      [] OTHER -> s

\* a chunk size policy that ignores the type of the layer
chunk_size_unclassified(layer) == 10000

\* LayerDataView._get_chunk_size_for_layer with the numbers of the source
chunk_size_in_source(layer) ==
    IF layer.layer_type = NoType THEN 10000
    ELSE LET layer_type == lower(LayerTypes[layer.layer_type])
         IN IF layer_type \in {"polygon", "multipolygon"} THEN 500
            ELSE IF layer_type \in {"line", "linestring", "multilinestring"} THEN 2000
            ELSE 10000

\* LayerDataView._get_chunk_size_for_layer, sizes scaled to the model
get_chunk_size_for_layer(layer) ==
    IF layer.layer_type = NoType THEN PointChunk
    ELSE LET layer_type == lower(LayerTypes[layer.layer_type])
         IN IF layer_type \in {"polygon", "multipolygon"} THEN PolygonChunk
            ELSE IF layer_type \in {"line", "linestring", "multilinestring"} THEN LineChunk
            ELSE PointChunk

\* primary keys of the rows of layer lid, in insertion order
RECURSIVE LayerRowIds(_, _)
LayerRowIds(R, lid) ==
    IF R = <<>> THEN <<>>
    ELSE IF Head(R).project_layer = lid THEN <<Head(R).id>> \o LayerRowIds(Tail(R), lid)
         ELSE LayerRowIds(Tail(R), lid)

SeqRange(q) == {q[i] : i \in 1..Len(q)}

\* layer.features.all(): ProjectLayerData.Meta declares no ordering and the
\* view adds no order_by, so the SELECT carries no ORDER BY and the database
\* may return the rows of the layer in any order, query by query
QueryOrders(R, lid) ==
    LET ids == SeqRange(LayerRowIds(R, lid))
        n == Cardinality(ids)
    IN {q \in [1..n -> ids] : \A i, j \in 1..n : i # j => q[i] # q[j]}

\* queryset[start_idx:end_idx] evaluated: OFFSET start_idx LIMIT chunk_size
slice(q, start_idx, end_idx) ==
    SubSeq(q, start_idx + 1, IF end_idx < Len(q) THEN end_idx ELSE Len(q))

\* chunk_response with total_chunks rounded down instead of up
chunk_response_floor(q, chunk_id, chunk_size) ==
    LET start_idx == (chunk_id - 1) * chunk_size
        end_idx == start_idx + chunk_size
        features == slice(q, start_idx, end_idx)
        total_chunks == Len(q) \div chunk_size
    IN [features |-> features,
        features_count |-> Len(features),
        total_count |-> Len(q),
        next_chunk |-> IF chunk_id < total_chunks THEN chunk_id + 1 ELSE 0]

\* lines 455-477: the chunk of a result order q for chunk_id >= 1
chunk_response(q, chunk_id, chunk_size) ==
    LET start_idx == (chunk_id - 1) * chunk_size
        end_idx == start_idx + chunk_size
        features == slice(q, start_idx, end_idx)
        total_chunks == (Len(q) + chunk_size - 1) \div chunk_size
    IN [features |-> features,
        features_count |-> Len(features),
        total_count |-> Len(q),
        next_chunk |-> IF chunk_id < total_chunks THEN chunk_id + 1 ELSE 0]

\* the chunk_id query parameter: int(chunk_id) succeeds or raises ValueError
RawChunkIds ==
    {[int |-> FALSE, v |-> 0]} \cup {[int |-> TRUE, v |-> n] : n \in -1..MaxChunkId}

\* ceil(n / s)
CeilDiv(n, s) == IF n % s = 0 THEN n \div s ELSE n \div s + 1

\* what a reader who started at chunk 1 has collected after this read
scan_after(lid, chunk_id, features, total) ==
    IF chunk_id = 1
    THEN [layer |-> lid, next |-> 2, got |-> features, done |-> total <= 1]
    ELSE IF scan.layer = lid /\ ~scan.done /\ scan.next = chunk_id
    THEN [layer |-> lid, next |-> chunk_id + 1, got |-> scan.got \o features,
          done |-> total <= chunk_id]
    ELSE NoScan

\* the callers of a read, <<is_authenticated, can_view>>: anonymous, a user
\* for whom no LayerPermission row grants can_view on the layer, a user for
\* whom one does
Callers == {<<FALSE, FALSE>>, <<TRUE, FALSE>>, <<TRUE, TRUE>>}

\* a read that refreshes the layer's statistics
layer_after_read_recount(L, R, lid) == update_feature_count(L, R, lid)

\* the layer rows after a read that was answered 200: the handlers call no
\* save(), create() or delete() on ProjectLayer or ProjectLayerData
layer_after_read(L, R, lid) == L

\* LayerDataView.get.  q is the order in which the database returns the rows.
\* A chunk_id below 1 makes start_idx negative: QuerySet.__getitem__ raises
\* on a negative index, and only ProjectLayer.DoesNotExist is caught.
\* can_view is what the LayerPermission table says about the caller; the
\* handler never reads it.
ChunkRead(layer_id, raw, auth, can_view, q) ==
    LET Answer(status, msg) == [R0 EXCEPT !.op = "chunk", !.status = status, !.error = msg,
                                          !.layer = layer_id, !.auth = auth,
                                          !.can_view = can_view,
                                          !.chunk_ok = raw.int, !.chunk_id = raw.v,
                                          !.queries = 1]
    IN /\ IF layer_id \notin LayerIds
          THEN /\ q = <<>>
               /\ resp' = Answer(404, "Layer not found")
               /\ scan' = NoScan
               /\ UNCHANGED layers
          ELSE IF ~auth /\ ~layers[layer_id].is_public
          THEN /\ q = <<>>
               /\ resp' = Answer(403, "Access denied")
               /\ scan' = NoScan
               /\ UNCHANGED layers
          ELSE IF ~raw.int
          THEN /\ q = <<>>
               /\ resp' = Answer(400, "Invalid chunk_id")
               /\ scan' = NoScan
               /\ UNCHANGED layers
          ELSE IF raw.v < 1
          THEN /\ q = <<>>
               /\ resp' = Answer(500, "Negative indexing is not supported.")
               /\ scan' = NoScan
               /\ UNCHANGED layers
          ELSE LET size == get_chunk_size_for_layer(layers[layer_id])
                   r == chunk_response(q, raw.v, size)
               IN /\ q \in QueryOrders(rows, layer_id)
                  /\ resp' = [Answer(200, "") EXCEPT !.features = r.features,
                                                     !.features_count = r.features_count,
                                                     !.total_count = r.total_count,
                                                     !.next_chunk = r.next_chunk,
                                                     !.queries = 5]
                  /\ scan' = scan_after(layer_id, raw.v, r.features, CeilDiv(Len(q), size))
                  /\ layers' = layer_after_read(layers, rows, layer_id)
       /\ UNCHANGED <<rows, next_row_id, files, next_file_id, temp_dirs, next_dir>>
       /\ UNCHANGED tasks

\* GET /layers/<id>/data/ without page (ProjectLayerViewSet.data): the whole
\* collection through GeoJSONFeatureCollectionSerializer.  The viewset asks
\* for IsAuthenticated; DRF answers an anonymous caller 401 or 403, by the
\* authentication classes of the deployment.
LayerData(layer_id, auth, denied, q) ==
    LET Answer(status) == [R0 EXCEPT !.op = "data", !.status = status,
                                     !.layer = layer_id, !.auth = auth]
    IN /\ IF ~auth
          THEN /\ q = <<>>
               /\ resp' = Answer(denied)
               /\ UNCHANGED layers
          ELSE IF layer_id \notin LayerIds
          THEN /\ q = <<>>
               /\ denied = 401
               /\ resp' = Answer(404)
               /\ UNCHANGED layers
          ELSE /\ q \in QueryOrders(rows, layer_id)
               /\ denied = 401
               /\ resp' = [Answer(200) EXCEPT !.features = q, !.features_count = Len(q)]
               /\ layers' = layer_after_read(layers, rows, layer_id)
       /\ scan' = NoScan
       /\ UNCHANGED <<rows, next_row_id, files, next_file_id, temp_dirs, next_dir>>
       /\ UNCHANGED tasks

(***************************************************************************)
(* The helpers of layers/file_utils.py and layers/utils.py called on a     *)
(* path of the caller's choice (a script or a shell, not an HTTP handler). *)
(***************************************************************************)
\* get_crs_from_file(file_path, file_type) on a file named *.<ext>
CallGetCrs(ext, content, file_type) ==
    LET crs == get_crs_from_file(temp_dirs, next_dir, ext, content, file_type)
    IN /\ next_dir <= MaxDirs
       /\ temp_dirs' = crs.dirs
       /\ next_dir' = IF crs.dir # 0 THEN next_dir + 1 ELSE next_dir
       /\ resp' = [R0 EXCEPT !.op = "get_crs_from_file", !.status = 0,
                             !.has_crs = crs.has_crs, !.error = crs.name, !.dir = crs.dir]
       /\ scan' = NoScan
       /\ UNCHANGED <<layers, rows, next_row_id, files, next_file_id>>
       /\ UNCHANGED tasks

\* import_file_to_layer(layer, file_path, file_type, source_crs) on a file
\* named *.<ext> and an existing layer
CallImport(lid, ext, content, file_type, source_crs, fail_at) ==
    LET imp == import_file_to_layer(layers, rows, next_row_id, temp_dirs, next_dir, lid,
                                    ext, content, file_type, source_crs, "EPSG:4326", fail_at)
    IN /\ lid \in LayerIds
       /\ next_dir <= MaxDirs
       /\ next_row_id + imp.needs - 1 <= MaxRowId
       /\ layers' = imp.layers
       /\ rows' = imp.rows
       /\ next_row_id' = imp.next_row_id
       /\ temp_dirs' = imp.dirs
       /\ next_dir' = IF imp.dir # 0 THEN next_dir + 1 ELSE next_dir
       /\ resp' = [R0 EXCEPT !.op = "import_file_to_layer", !.status = 0, !.layer = lid,
                             !.error = imp.error,
                             !.count = IF imp.success THEN imp.count ELSE -1,
                             !.batches = imp.batches, !.failed_batch = imp.failed_batch,
                             !.imported = imp.imported, !.dir = imp.dir]
       /\ scan' = NoScan
       /\ UNCHANGED <<files, next_file_id>>
       /\ UNCHANGED tasks

\* utils.extract_shapefile(shapefile_zip): on success the .shp path and the
\* directory are returned to the caller; the except clause removes the
\* directory and re-raises.  os.listdir looks at the top level only.
extract_shapefile(D, d, c) ==
    LET D1 == D \cup {d}
    IN IF ~c.archive \/ ~c.valid_zip
       THEN [dirs |-> rmtree(D1, d).dirs, raised |-> TRUE, msg |-> "File is not a zip file"]
       ELSE IF c.shp # "top"
       THEN [dirs |-> rmtree(D1, d).dirs, raised |-> TRUE, msg |-> "No .shp file found in the zipfile"]
       ELSE [dirs |-> D1, raised |-> FALSE, msg |-> ""]

CallExtractShapefile(content) ==
    LET x == extract_shapefile(temp_dirs, next_dir, content)
    IN /\ next_dir <= MaxDirs
       /\ temp_dirs' = x.dirs
       /\ next_dir' = next_dir + 1
       /\ resp' = [R0 EXCEPT !.op = "extract_shapefile", !.status = IF x.raised THEN 1 ELSE 0,
                             !.error = x.msg, !.dir = next_dir]
       /\ scan' = NoScan
       /\ UNCHANGED <<layers, rows, next_row_id, files, next_file_id>>
       /\ UNCHANGED tasks

\* utils.cleanup_temp_dir(temp_dir), given a directory extract_shapefile returned
CallCleanupTempDir(d) ==
    /\ d \in temp_dirs
    /\ temp_dirs' = rmtree(temp_dirs, d).dirs
    /\ resp' = [R0 EXCEPT !.op = "cleanup_temp_dir", !.dir = d]
    /\ scan' = NoScan
    /\ UNCHANGED <<layers, rows, next_row_id, files, next_file_id, next_dir>>
    /\ UNCHANGED tasks

(***************************************************************************)
(* Inputs of the requests.                                                 *)
(***************************************************************************)
\* file name suffix and bytes of an upload
UploadInputs ==
    {<<"shp", BigFile>>, <<"kml", NoCrsFile>>, <<"sqlite", CorruptFile>>,
     <<"kml", MercatorFile>>, <<"zip", ZipOk>>, <<"txt", BigFile>>}

\* complete_upload requests <<file_type, group_id, layer_type_id, source_crs,
\* target_crs, fail_at>>: well-formed ones, and one per kind of bad reference
CompleteInputs ==
    ({"shp", "kml", "sqlite"} \X {1} \X {1} \X {NoCrs, "EPSG:4326"} \X {"EPSG:4326"} \X (0..2))
    \cup {<<"kml", 1, 1, "bogus", "EPSG:4326", 0>>,
          <<"kml", 1, 1, NoCrs, "bogus", 0>>,
          <<"kml", NoSuchId, 1, NoCrs, "EPSG:4326", 0>>,
          <<"kml", 1, NoSuchId, NoCrs, "EPSG:4326", 0>>,
          <<"kml", 1, NoType, "EPSG:4326", "EPSG:4326", 0>>}

FeatureInputs == {<<P0, NoFid>>, <<L0, CallerFid(1)>>}

GeoJSONBodies ==
    {<<"Feature", <<>>>>,
     <<"FeatureCollection", <<>>>>,
     <<"FeatureCollection", <<[geometry |-> P0, id |-> NoFid]>>>>,
     <<"FeatureCollection", <<[geometry |-> L0, id |-> CallerFid(1)], [geometry |-> BadGeom, id |-> NoFid]>>>>,
     <<"FeatureCollection", <<[geometry |-> BadGeom, id |-> NoFid], [geometry |-> P0, id |-> NoFid]>>>>,
     <<"FeatureCollection", <<[geometry |-> P0, id |-> NoFid], [geometry |-> P0, id |-> NoFid],
                              [geometry |-> L0, id |-> NoFid], [geometry |-> BadGeom, id |-> NoFid]>>>>}

\* get_crs_from_file calls <<suffix of the path, bytes, file_type>>
GetCrsInputs ==
    ({"zip"} \X ZipContents \X {"shp"})
    \cup {<<"shp", BigFile, "shp">>, <<"kml", NoCrsFile, "kml">>, <<"gpx", BigFile, "gpx">>}

\* import_file_to_layer calls <<suffix of the path, bytes, source_crs, fail_at>>
ImportInputs ==
    ({"zip"} \X ZipContents \X {NoCrs} \X {0})
    \cup {<<"zip", ZipOk, NoCrs, 1>>, <<"zip", ZipNested, "EPSG:4326", 0>>}
    \cup ({"shp"} \X {BigFile} \X {NoCrs} \X (0..2))

(***************************************************************************)
(* Spec: the upload pipeline over HTTP (upload, complete_upload) together  *)
(* with the feature writes that can follow an import.                      *)
(***************************************************************************)
Next ==
    \/ \E u \in UploadInputs : FileUpload(u[1], u[2])
    \/ \E fid \in 1..MaxFiles, name \in LayerNames, r \in CompleteInputs :
          CompleteUpload(fid, r[1], r[2], name, r[3], r[4], r[5], FALSE, r[6])
    \/ \E lid \in 1..MaxLayers : FeatureCreate(lid, P0, NoFid)
    \/ \E id \in 1..MaxRowId : FeatureDelete(id)
    \/ \E lid \in 1..MaxLayers : ClearData(lid)

Spec == Init /\ [][Next]_vars

(***************************************************************************)
(* SpecFeatures: the feature writes of the HTTP interface on layers        *)
(* created through POST /layers/.                                          *)
(***************************************************************************)
NextFeatures ==
    \/ \E g \in Groups, name \in LayerNames : CreateLayer(g, 1, name)
    \/ \E lid \in 1..MaxLayers, gf \in FeatureInputs : FeatureCreate(lid, gf[1], gf[2])
    \/ \E id \in 1..MaxRowId, lid \in 1..MaxLayers, geom \in Geoms : FeatureUpdate(id, lid, geom)
    \/ \E id \in 1..MaxRowId : FeatureDelete(id)
    \/ \E lid \in 1..MaxLayers : ClearData(lid)
    \/ \E lid \in 1..MaxLayers, b \in GeoJSONBodies : ImportGeoJSON(lid, b[1], b[2])

SpecFeatures == Init /\ [][NextFeatures]_vars

(***************************************************************************)
(* SpecRead: chunked reads of layers of every type, between feature        *)
(* writes.                                                                 *)
(***************************************************************************)
\* every arrangement of at most MaxRowId primary keys
AllOrders ==
    UNION {{q \in [1..n -> 1..MaxRowId] : \A i, j \in 1..n : i # j => q[i] # q[j]} : n \in 0..MaxRowId}

NextRead ==
    \/ \E g \in Groups, t \in LayerTypeIds, name \in LayerNames : CreateLayer(g, t, name)
    \/ \E lid \in 1..MaxLayers : FeatureCreate(lid, P0, NoFid)
    \/ \E id \in 1..MaxRowId : FeatureDelete(id)
    \/ \E lid \in 1..(MaxLayers + 1), raw \in RawChunkIds, auth \in BOOLEAN, q \in AllOrders :
          ChunkRead(lid, raw, auth, auth, q)

SpecRead == Init /\ [][NextRead]_vars

(***************************************************************************)
(* projects/views.py: ProjectConstructorView, the chunks it advertises     *)
(***************************************************************************)
\* ProjectConstructorView._get_chunk_size_for_layer, sizes scaled to the model
constructor_chunk_size(layer) ==
    IF layer.layer_type = NoType THEN PointChunk
    ELSE LET layer_type == lower(LayerTypes[layer.layer_type])
         IN IF layer_type \in {"polygon", "multipolygon"} THEN PolygonChunk
            ELSE IF layer_type \in {"line", "linestring", "multilinestring"} THEN LineChunk
            ELSE PointChunk

\* range(1, total_chunks + 1) as a list
RangeList(n) == [i \in 1..n |-> i]

\* a chunk_ids that advertises no chunk for an empty layer
chunk_ids_none_when_empty(layer, feature_count) ==
    LET chunk_size == constructor_chunk_size(layer)
        total_chunks == (feature_count + chunk_size - 1) \div chunk_size
    IN RangeList(total_chunks)

\* _build_project_constructor, lines 411-417: feature_count is
\* layer.features.count()
chunk_ids(layer, feature_count) ==
    LET chunk_size == constructor_chunk_size(layer)
        total_chunks == (feature_count + chunk_size - 1) \div chunk_size
    IN IF total_chunks > 0 THEN RangeList(total_chunks) ELSE <<1>>

\* the chunk ids a client visits on layer lid when it reads chunk c and then
\* follows next_chunk until a response carries none
RECURSIVE follow_next_chunk(_, _, _, _)
follow_next_chunk(L, R, lid, c) ==
    LET r == chunk_response(LayerRowIds(R, lid), c, get_chunk_size_for_layer(L[lid]))
    IN IF r.next_chunk = 0 THEN <<c>>
       ELSE <<c>> \o follow_next_chunk(L, R, lid, r.next_chunk)

(***************************************************************************)
(* SpecAccess: chunked and full-collection reads by every kind of caller,  *)
(* between feature writes, on layers of one type.                          *)
(***************************************************************************)
NextAccess ==
    \/ \E g \in Groups, name \in LayerNames : CreateLayer(g, 1, name)
    \/ \E lid \in 1..MaxLayers : FeatureCreate(lid, P0, NoFid)
    \/ \E id \in 1..MaxRowId : FeatureDelete(id)
    \/ \E lid \in 1..(MaxLayers + 1), raw \in RawChunkIds, c \in Callers, q \in AllOrders :
          ChunkRead(lid, raw, c[1], c[2], q)
    \/ \E lid \in 1..(MaxLayers + 1), auth \in BOOLEAN, denied \in {401, 403}, q \in AllOrders :
          LayerData(lid, auth, denied, q)

SpecAccess == Init /\ [][NextAccess]_vars

(***************************************************************************)
(* SpecHelpers: the helpers called directly, with layers to import into.   *)
(***************************************************************************)
NextHelpers ==
    \/ \E g \in Groups, name \in LayerNames : CreateLayer(g, 1, name)
    \/ \E r \in GetCrsInputs : CallGetCrs(r[1], r[2], r[3])
    \/ \E lid \in 1..MaxLayers, r \in ImportInputs : CallImport(lid, r[1], r[2], "shp", r[3], r[4])
    \/ \E c \in ZipContents \cup {BigFile} : CallExtractShapefile(c)
    \/ \E d \in 1..MaxDirs : CallCleanupTempDir(d)

SpecHelpers == Init /\ [][NextHelpers]_vars

(***************************************************************************)
(* Requests that overlap.  Each worker of the deployment serves one        *)
(* request at a time; the statements of two requests interleave at the     *)
(* database.  Outside "with transaction.atomic()" every statement commits  *)
(* on its own (autocommit); inside, the statements of the block become     *)
(* visible together at COMMIT, a count sees what is committed when it runs *)
(* plus the block's own writes, and an UPDATE of the layer row takes the    *)
(* row lock until COMMIT.                                                  *)
(***************************************************************************)
\* replace the slot of worker t
SetTask(t, rec) == [tasks EXCEPT ![t] = rec]

\* no other worker holds the row lock of layer lid
LockFree(t, lid) ==
    \A u \in Tasks : u # t => ~(tasks[u].holds /\ tasks[u].layer = lid)

\* the table project_layer_data as the transaction of worker t sees it
VisibleRows(t) == Without(rows, tasks[t].del) \o tasks[t].ins

\* the layer row an UPDATE of worker t starts from: its own version once it
\* has the lock, the committed one before
BaseRow(t) == IF tasks[t].holds THEN tasks[t].row ELSE layers[tasks[t].layer]

\* lines 222-224 with a count taken from the whole table
features_count_of_table(t) == Len(rows)

\* line 222: features_count = len(features)
features_count(t) == Len(tasks[t].features)

\* CompleteUploadView.post, lines 670-684, and import_file_to_layer up to the
\* first batch: the layer row is inserted with status importing, the file is
\* opened and reprojected, one unsaved feature is built per row
ImportStart(t, name, c, source_crs, fail_at) ==
    LET lid == Len(layers) + 1
        obj == NewLayer(1, 1, name, FALSE, "importing")
        opened == import_open(temp_dirs, next_dir, "shp", c, "shp")
        gdf == import_crs(opened.gdf, source_crs, "EPSG:4326")
    IN /\ tasks[t] = Idle
       /\ Len(layers) < MaxLayers
       /\ ~NameTaken(layers, 1, name)
       /\ layers' = Append(layers, obj)
       /\ tasks' = SetTask(t, [Idle EXCEPT !.kind = "import",
                                           !.pc = IF gdf.ok THEN "batches" ELSE "except",
                                           !.layer = lid, !.obj = obj,
                                           !.content = c, !.source_crs = source_crs,
                                           !.features = IF gdf.ok THEN import_features(gdf.rows, lid)
                                                        ELSE <<>>,
                                           !.fail_at = fail_at,
                                           !.msg = IF gdf.ok THEN "" ELSE gdf.error])
       /\ UNCHANGED <<rows, next_row_id, files, next_file_id, temp_dirs, next_dir, scan, resp>>

\* lines 216-220, one pass of the loop: bulk_create of the next batch, which
\* commits on its own, or the exception storage raises on it
ImportBatch(t) ==
    LET task == tasks[t]
        lo == task.done * batch_size + 1
        hi == IF (task.done + 1) * batch_size < Len(task.features)
              THEN (task.done + 1) * batch_size ELSE Len(task.features)
        batch == SubSeq(task.features, lo, hi)
    IN /\ task.kind = "import" /\ task.pc = "batches"
       /\ task.done < NumBatches(Len(task.features))
       /\ IF task.fail_at = task.done + 1
          THEN /\ tasks' = SetTask(t, [task EXCEPT !.pc = "except", !.msg = "storage error"])
               /\ UNCHANGED <<rows, next_row_id>>
          ELSE /\ next_row_id + Len(batch) - 1 <= MaxTaskRowId
               /\ rows' = bulk_create(rows, next_row_id, batch)
               /\ next_row_id' = next_row_id + Len(batch)
               /\ tasks' = SetTask(t, [task EXCEPT !.done = task.done + 1])
       /\ UNCHANGED <<layers, files, next_file_id, temp_dirs, next_dir, scan, resp>>

\* lines 222-229: layer.save() writes every column of the instance the
\* import holds
ImportFinish(t) ==
    LET task == tasks[t]
    IN /\ task.kind = "import" /\ task.pc = "batches"
       /\ task.done = NumBatches(Len(task.features))
       /\ LockFree(t, task.layer)
       /\ layers' = [layers EXCEPT ![task.layer] = import_success(task.obj, features_count(t))]
       /\ resp' = [R0 EXCEPT !.op = "complete_upload", !.status = 200, !.layer = task.layer,
                             !.count = features_count(t), !.imported = Len(task.features)]
       /\ tasks' = SetTask(t, Idle)
       /\ UNCHANGED <<rows, next_row_id, files, next_file_id, temp_dirs, next_dir, scan>>

\* lines 231-237: the except clause, again a save of every column
ImportFail(t) ==
    LET task == tasks[t]
    IN /\ task.kind = "import" /\ task.pc = "except"
       /\ LockFree(t, task.layer)
       /\ layers' = [layers EXCEPT ![task.layer] = import_failure(task.obj, task.msg)]
       /\ resp' = [R0 EXCEPT !.op = "complete_upload", !.status = 500, !.layer = task.layer,
                             !.error = task.msg]
       /\ tasks' = SetTask(t, Idle)
       /\ UNCHANGED <<rows, next_row_id, files, next_file_id, temp_dirs, next_dir, scan>>

\* the datasets, source CRS and failing batch of the imports that overlap
ImportRequests ==
    {<<BigFile, NoCrs, 0>>, <<BigFile, NoCrs, 2>>, <<NoCrsFile, "EPSG:4326", 0>>,
     <<NoCrsFile, NoCrs, 0>>, <<MercatorFile, NoCrs, 0>>, <<CorruptFile, NoCrs, 0>>}

NextImports ==
    \/ \E t \in Tasks, name \in LayerNames, r \in ImportRequests :
          ImportStart(t, name, r[1], r[2], r[3])
    \/ \E t \in Tasks : ImportBatch(t)
    \/ \E t \in Tasks : ImportFinish(t)
    \/ \E t \in Tasks : ImportFail(t)

SpecImports == Init /\ [][NextImports]_vars

(***************************************************************************)
(* ProjectLayerDataViewSet.perform_create / perform_destroy and            *)
(* ProjectLayerViewSet.clear_data, statement by statement.                 *)
(***************************************************************************)
\* save(update_fields=['feature_count', 'last_data_update']) of a count n
\* taken by an earlier statement
write_feature_count(layer, n) ==
    [layer EXCEPT !.feature_count = n, !.last_data_update = SetTime]

\* perform_create, the INSERT of ProjectLayerData.save (super().save())
TxnInsert(t, lid, geom) ==
    LET row == [id |-> next_row_id, project_layer |-> lid, geometry |-> geom,
                bbox |-> save_bbox(geom, NoBBox),
                feature_id |-> save_feature_id(NoFid, next_row_id)]
    IN /\ tasks[t] = Idle
       /\ lid \in LayerIds
       /\ next_row_id <= MaxTaskRowId
       /\ next_row_id' = next_row_id + 1
       /\ tasks' = SetTask(t, [Idle EXCEPT !.kind = "create", !.pc = "signal",
                                           !.layer = lid, !.ins = <<row>>])
       /\ UNCHANGED <<layers, rows, files, next_file_id, temp_dirs, next_dir, scan, resp>>

\* the post_save receiver: UPDATE of last_data_update, which waits for and
\* then takes the lock of the layer row
TxnSignalSave(t) ==
    LET task == tasks[t]
    IN /\ task.kind = "create" /\ task.pc = "signal"
       /\ LockFree(t, task.layer)
       /\ tasks' = SetTask(t, [task EXCEPT !.pc = "count1", !.holds = TRUE,
                                           !.row = update_layer_on_feature_save(<<BaseRow(t)>>, 1)[1]])
       /\ UNCHANGED <<layers, rows, next_row_id, files, next_file_id, temp_dirs, next_dir, scan, resp>>

\* perform_destroy: get_object and the DELETE of instance.delete().  The
\* DELETE waits while another transaction has deleted the row and not
\* committed.
TxnDelete(t, id) ==
    /\ tasks[t] = Idle
    /\ RowIndex(rows, id) # 0
    /\ \A u \in Tasks : id \notin tasks[u].del
    /\ tasks' = SetTask(t, [Idle EXCEPT !.kind = "delete", !.pc = "count1",
                                        !.layer = rows[RowIndex(rows, id)].project_layer,
                                        !.del = {id}])
    /\ UNCHANGED <<layers, rows, next_row_id, files, next_file_id, temp_dirs, next_dir, scan, resp>>

\* self.features.count(): of update_feature_count (models.py:187) in
\* ProjectLayerData.save and in the views, and of the post_delete receiver
TxnCount(t) ==
    LET task == tasks[t]
    IN /\ task.kind \in {"create", "delete", "clear"}
       /\ task.pc \in {"count1", "count2"}
       /\ tasks' = SetTask(t, [task EXCEPT !.count = CountRows(VisibleRows(t), task.layer),
                                           !.pc = IF task.pc = "count1" THEN "write1" ELSE "write2"])
       /\ UNCHANGED <<layers, rows, next_row_id, files, next_file_id, temp_dirs, next_dir, scan, resp>>

\* the save(update_fields=...) that follows the count
TxnWrite(t) ==
    LET task == tasks[t]
    IN /\ task.kind \in {"create", "delete", "clear"}
       /\ task.pc \in {"write1", "write2"}
       /\ LockFree(t, task.layer)
       /\ tasks' = SetTask(t, [task EXCEPT !.holds = TRUE,
                                           !.row = write_feature_count(BaseRow(t), task.count),
                                           !.pc = IF task.kind = "clear" THEN "save"
                                                  ELSE IF task.pc = "write1" THEN "count2"
                                                  ELSE "commit"])
       /\ UNCHANGED <<layers, rows, next_row_id, files, next_file_id, temp_dirs, next_dir, scan, resp>>

\* the end of "with transaction.atomic()": COMMIT
TxnCommit(t) ==
    LET task == tasks[t]
    IN /\ task.kind \in {"create", "delete", "clear"}
       /\ task.pc = "commit"
       /\ rows' = VisibleRows(t)
       /\ layers' = IF task.holds THEN [layers EXCEPT ![task.layer] = task.row] ELSE layers
       /\ resp' = [R0 EXCEPT !.op = CASE task.kind = "create" -> "feature_create"
                                      [] task.kind = "delete" -> "feature_delete"
                                      [] OTHER -> "clear_data",
                             !.status = CASE task.kind = "create" -> 201
                                          [] task.kind = "delete" -> 204
                                          [] OTHER -> 200,
                             !.layer = task.layer]
       /\ tasks' = SetTask(t, Idle)
       /\ UNCHANGED <<next_row_id, files, next_file_id, temp_dirs, next_dir, scan>>

\* clear_data, line 236: layer = self.get_object(), before the transaction
ClearLoad(t, lid) ==
    /\ tasks[t] = Idle
    /\ lid \in LayerIds
    /\ tasks' = SetTask(t, [Idle EXCEPT !.kind = "clear", !.pc = "delete",
                                        !.layer = lid, !.obj = layers[lid]])
    /\ UNCHANGED <<layers, rows, next_row_id, files, next_file_id, temp_dirs, next_dir, scan, resp>>

\* clear_data, lines 239-240: layer.features.all().delete() removes the rows
\* the statement sees; the post_delete receiver then counts and writes
ClearDelete(t) ==
    LET task == tasks[t]
        seen == {rows[i].id : i \in {j \in 1..Len(rows) : rows[j].project_layer = task.layer}}
    IN /\ task.kind = "clear" /\ task.pc = "delete"
       /\ \A u \in Tasks : seen \cap tasks[u].del = {}
       /\ tasks' = SetTask(t, [task EXCEPT !.del = seen,
                                           !.pc = IF seen = {} THEN "save" ELSE "count1"])
       /\ UNCHANGED <<layers, rows, next_row_id, files, next_file_id, temp_dirs, next_dir, scan, resp>>

\* clear_data, lines 241-243: feature_count = 0 and layer.save(), which writes
\* every column of the instance loaded by get_object
ClearSave(t) ==
    LET task == tasks[t]
    IN /\ task.kind = "clear" /\ task.pc = "save"
       /\ LockFree(t, task.layer)
       /\ tasks' = SetTask(t, [task EXCEPT !.holds = TRUE, !.pc = "commit",
                                           !.row = [task.obj EXCEPT !.last_data_update = SetTime,
                                                                    !.feature_count = 0]])
       /\ UNCHANGED <<layers, rows, next_row_id, files, next_file_id, temp_dirs, next_dir, scan, resp>>

(***************************************************************************)
(* LayerDataView.get, query by query (no transaction: each query sees what *)
(* is committed when it runs).                                             *)
(***************************************************************************)
\* lines 439-460: the layer is loaded, the chunk size and the offsets follow
ReadBegin(t, lid, chunk_id) ==
    /\ tasks[t] = Idle
    /\ lid \in LayerIds
    /\ tasks' = SetTask(t, [Idle EXCEPT !.kind = "read", !.pc = "slice_count",
                                        !.layer = lid, !.obj = layers[lid],
                                        !.chunk_id = chunk_id])
    /\ UNCHANGED <<layers, rows, next_row_id, files, next_file_id, temp_dirs, next_dir, scan, resp>>

\* line 461: feature_count = features.count(), a COUNT over the slice
ReadSliceCount(t) ==
    LET task == tasks[t]
        size == get_chunk_size_for_layer(task.obj)
        start_idx == (task.chunk_id - 1) * size
    IN /\ task.kind = "read" /\ task.pc = "slice_count"
       /\ tasks' = SetTask(t, [task EXCEPT !.pc = "total",
                                           !.count = Len(slice(LayerRowIds(rows, task.layer),
                                                               start_idx, start_idx + size))])
       /\ UNCHANGED <<layers, rows, next_row_id, files, next_file_id, temp_dirs, next_dir, scan, resp>>

\* line 470: "total_count": layer.features.count()
ReadTotal(t) ==
    LET task == tasks[t]
    IN /\ task.kind = "read" /\ task.pc = "total"
       /\ tasks' = SetTask(t, [task EXCEPT !.pc = "chunks",
                                           !.total = CountRows(rows, task.layer)])
       /\ UNCHANGED <<layers, rows, next_row_id, files, next_file_id, temp_dirs, next_dir, scan, resp>>

\* lines 475-477: total_chunks from a third count, and next_chunk
ReadChunks(t) ==
    LET task == tasks[t]
        size == get_chunk_size_for_layer(task.obj)
        total_chunks == (CountRows(rows, task.layer) + size - 1) \div size
    IN /\ task.kind = "read" /\ task.pc = "chunks"
       /\ tasks' = SetTask(t, [task EXCEPT !.pc = "rows",
                                           !.next = IF task.chunk_id < total_chunks
                                                    THEN task.chunk_id + 1 ELSE 0])
       /\ UNCHANGED <<layers, rows, next_row_id, files, next_file_id, temp_dirs, next_dir, scan, resp>>

\* lines 480-490: "for feature in features" runs the SELECT of the slice; q is
\* the order in which the database returns the rows
ReadRows(t, q) ==
    LET task == tasks[t]
        size == get_chunk_size_for_layer(task.obj)
        start_idx == (task.chunk_id - 1) * size
    IN /\ task.kind = "read" /\ task.pc = "rows"
       /\ q \in QueryOrders(rows, task.layer)
       /\ resp' = [R0 EXCEPT !.op = "chunk", !.status = 200, !.layer = task.layer,
                             !.auth = TRUE, !.can_view = TRUE, !.chunk_ok = TRUE,
                             !.chunk_id = task.chunk_id,
                             !.features = slice(q, start_idx, start_idx + size),
                             !.features_count = task.count,
                             !.total_count = task.total,
                             !.next_chunk = task.next,
                             !.queries = 5]
       /\ tasks' = SetTask(t, Idle)
       /\ UNCHANGED <<layers, rows, next_row_id, files, next_file_id, temp_dirs, next_dir, scan>>

\* SpecReadWrite: chunk reads of a layer while an import fills it
ReadWriteImports == {<<BigFile, NoCrs, 0>>, <<BigFile, NoCrs, 2>>}

NextReadWrite ==
    \/ \E t \in Tasks, r \in ReadWriteImports : ImportStart(t, "parcels", r[1], r[2], r[3])
    \/ \E t \in Tasks : ImportBatch(t)
    \/ \E t \in Tasks : ImportFinish(t)
    \/ \E t \in Tasks : ImportFail(t)
    \/ \E t \in Tasks, lid \in 1..MaxLayers, c \in 1..MaxChunkId : ReadBegin(t, lid, c)
    \/ \E t \in Tasks : ReadSliceCount(t)
    \/ \E t \in Tasks : ReadTotal(t)
    \/ \E t \in Tasks : ReadChunks(t)
    \/ \E t \in Tasks, q \in AllOrders : ReadRows(t, q)

SpecReadWrite == Init /\ [][NextReadWrite]_vars

\* SpecClear: clear_data requests on a layer that an import fills
ClearImports == {<<BigFile, NoCrs, 0>>, <<NoCrsFile, NoCrs, 0>>}

NextClear ==
    \/ \E t \in Tasks, r \in ClearImports : ImportStart(t, "parcels", r[1], r[2], r[3])
    \/ \E t \in Tasks : ImportBatch(t)
    \/ \E t \in Tasks : ImportFinish(t)
    \/ \E t \in Tasks : ImportFail(t)
    \/ \E t \in Tasks, lid \in 1..MaxLayers : ClearLoad(t, lid)
    \/ \E t \in Tasks : ClearDelete(t)
    \/ \E t \in Tasks : TxnCount(t)
    \/ \E t \in Tasks : TxnWrite(t)
    \/ \E t \in Tasks : ClearSave(t)
    \/ \E t \in Tasks : TxnCommit(t)

SpecClear == Init /\ [][NextClear]_vars

\* SpecTxn: feature-creating and feature-deleting requests on a layer made
\* by POST /layers/
NextTxn ==
    \/ CreateLayer(1, 1, "roads")
    \/ \E t \in Tasks, lid \in 1..MaxLayers : TxnInsert(t, lid, P0)
    \/ \E t \in Tasks : TxnSignalSave(t)
    \/ \E t \in Tasks, id \in 1..MaxTaskRowId : TxnDelete(t, id)
    \/ \E t \in Tasks : TxnCount(t)
    \/ \E t \in Tasks : TxnWrite(t)
    \/ \E t \in Tasks : TxnCommit(t)
    \/ \E t \in Tasks, lid \in 1..MaxLayers : ClearLoad(t, lid)
    \/ \E t \in Tasks : ClearDelete(t)
    \/ \E t \in Tasks : ClearSave(t)

SpecTxn == Init /\ [][NextTxn]_vars

(***************************************************************************)
(* Properties.                                                             *)
(***************************************************************************)
\* C1: after every completed operation, each layer's feature_count equals the
\* number of feature rows that reference the layer.
C1_FeatureCountMatchesRows ==
    \A l \in LayerIds : layers[l].feature_count = CountRows(rows, l)

\* C2: a reader who collects the chunks 1..ceil(N/S) of a layer with no write
\* in between holds exactly the features of the layer, each once, in creation
\* order.
C2_ChunkCoverage ==
    scan.done => scan.got = LayerRowIds(rows, scan.layer)

\* C3: a chunked read with chunk_id < 1 (of a layer that exists and that the
\* caller may read) is answered 400 and touches no storage.
C3_InvalidChunkRejected ==
    (/\ resp.op = "chunk" /\ resp.chunk_ok /\ resp.chunk_id < 1
     /\ resp.layer \in LayerIds
     /\ (resp.auth \/ layers[resp.layer].is_public))
        => (resp.status = 400 /\ resp.queries = 0)

Min2(a, b) == IF a < b THEN a ELSE b
Max2(a, b) == IF a > b THEN a ELSE b

\* Scenario D with the chunk size of the source for polygons, 1200 features
C4_ScenarioD ==
    LET q == [i \in 1..1200 |-> i]
        c1 == chunk_response(q, 1, 500)
        c3 == chunk_response(q, 3, 500)
    IN /\ Len(c1.features) = 500 /\ c1.next_chunk = 2
       /\ Len(c3.features) = 200 /\ c3.next_chunk = 0

\* C4: a read of chunk c >= 1 of a layer with N features and chunk size S that
\* the caller may read holds min(S, max(0, N-(c-1)*S)) features, reports that
\* number as features_count and N as total_count, and carries next_chunk = c+1
\* exactly when c < ceil(N/S).
C4_ChunkShape ==
    /\ C4_ScenarioD
    /\ (/\ resp.op = "chunk" /\ resp.chunk_ok /\ resp.chunk_id >= 1
        /\ resp.layer \in LayerIds
        /\ (resp.auth \/ layers[resp.layer].is_public))
       => LET N == CountRows(rows, resp.layer)
              S == get_chunk_size_for_layer(layers[resp.layer])
              c == resp.chunk_id
              expected == Min2(S, Max2(0, N - (c - 1) * S))
          IN /\ resp.status = 200
             /\ Len(resp.features) = expected
             /\ resp.features_count = expected
             /\ resp.total_count = N
             /\ (resp.next_chunk # 0) <=> (c < CeilDiv(N, S))
             /\ resp.next_chunk # 0 => resp.next_chunk = c + 1

\* a second chunk that is full and has a successor
C4_Witness ==
    /\ resp.op = "chunk" /\ resp.status = 200
    /\ resp.chunk_id = 2 /\ resp.features_count >= 1 /\ resp.next_chunk = 3

\* C5: every persisted feature has a bounding envelope that covers its
\* geometry (geometry is never NULL in the table).
C5_BBoxCoversGeometry ==
    \A i \in 1..Len(rows) : Covers(rows[i].bbox, rows[i].geometry)

\* C6: after a successful complete-import the new layer is complete, has
\* last_data_update set, and its feature_count is the number of rows the
\* import persisted, which is the feature_count of the response.
C6_ImportSuccess ==
    (resp.op = "complete_upload" /\ resp.status = 200)
        => /\ resp.layer \in LayerIds
           /\ layers[resp.layer].upload_status = "complete"
           /\ layers[resp.layer].last_data_update # NullTime
           /\ layers[resp.layer].feature_count = resp.imported
           /\ CountRows(rows, resp.layer) = resp.imported
           /\ resp.count = resp.imported

\* a successful import of several batches
C6_Witness ==
    /\ resp.op = "complete_upload" /\ resp.status = 200
    /\ resp.batches >= 2 /\ resp.imported > batch_size

\* the texts of the dataset-level failures
DatasetErrors ==
    {"read_error", "No CRS defined in file and none provided", "Invalid projection",
     "storage error"}

\* C7: a complete-import that created its layer and did not succeed answers
\* 500 with the text of the cause, leaves the layer failed with that text in
\* upload_error; no layer is in importing once a call has returned.
C7_ImportFailure ==
    /\ (resp.op = "complete_upload" /\ resp.layer # 0 /\ resp.status # 200)
          => /\ resp.status = 500
             /\ resp.error \in DatasetErrors
             /\ layers[resp.layer].upload_status = "failed"
             /\ layers[resp.layer].upload_error = resp.error
    /\ \A l \in LayerIds : layers[l].upload_status # "importing"

\* an import that failed for want of a CRS
C7_Witness ==
    /\ resp.op = "complete_upload" /\ resp.layer # 0 /\ resp.status = 500
    /\ resp.error = "No CRS defined in file and none provided"

\* C8: when storage fails on batch k, no later batch is submitted, the rows of
\* batches 1..k-1 stay, the layer is failed, and the number of rows imported
\* is recorded on the layer.
C8_PartialImportRecorded ==
    (resp.op = "complete_upload" /\ resp.failed_batch > 0)
        => /\ resp.batches = resp.failed_batch
           /\ resp.imported = (resp.failed_batch - 1) * batch_size
           /\ CountRows(rows, resp.layer) = resp.imported
           /\ layers[resp.layer].upload_status = "failed"
           /\ layers[resp.layer].feature_count = resp.imported

\* C9: after a complete-import that reached the import step, the working file
\* of its file handle is gone.
C9_WorkingFileDeleted ==
    (resp.op = "complete_upload" /\ resp.layer # 0)
        => \A f \in files : f.file_id # resp.file

ValidFeatures(feats) == {i \in 1..Len(feats) : feats[i].geometry.geom_type # "None"}

\* C11: a direct GeoJSON import of a FeatureCollection that holds features
\* with a valid geometry and features with a null or unparseable one is
\* answered 200 with features_imported = the number of valid features, and the
\* layer's feature_count grows by that number.
C11_GeoJSONImportsValidFeatures ==
    [][resp'.op = "import_geojson" =>
       \A lid \in 1..MaxLayers, b \in GeoJSONBodies :
          (/\ ImportGeoJSON(lid, b[1], b[2])
           /\ b[1] = "FeatureCollection"
           /\ ValidFeatures(b[2]) # {}
           /\ ValidFeatures(b[2]) # 1..Len(b[2]))
             => /\ resp'.status = 200
                /\ resp'.imported = Cardinality(ValidFeatures(b[2]))
                /\ layers'[lid].feature_count =
                      layers[lid].feature_count + Cardinality(ValidFeatures(b[2]))]_vars

\* C12: a direct GeoJSON import that is answered 400 changes no layer and
\* persists no feature.
C12_RejectedGeoJSONChangesNothing ==
    [][resp'.op = "import_geojson" =>
       \A lid \in 1..MaxLayers, b \in GeoJSONBodies :
          (ImportGeoJSON(lid, b[1], b[2]) /\ resp'.status = 400)
             => UNCHANGED <<layers, rows>>]_vars

\* the stored working file a complete_upload request names has no CRS of its
\* own and can be read
StoredWithoutCrs(fid, file_type) ==
    \E f \in StoredAt(files, fid, file_type) :
        f.content.readable /\ ~f.content.archive /\ f.content.crs = NoCrs

\* C13: a complete-import whose file handle does not exist, or whose group_id
\* or layer_type_id names no record, is answered 404 and creates no layer and
\* no feature.
C13_BadReferenceIs404 ==
    [][resp'.op = "complete_upload" =>
       \A fid \in 1..MaxFiles, name \in LayerNames, r \in CompleteInputs :
          (/\ \/ StoredAt(files, fid, r[1]) = {}
              \/ r[2] \notin Groups
              \/ (r[3] # NoType /\ r[3] \notin LayerTypeIds)
           /\ CompleteUpload(fid, r[1], r[2], name, r[3], r[4], r[5], FALSE, r[6]))
             => /\ resp'.status = 404
                /\ UNCHANGED <<layers, rows>>]_vars

\* the handle of a file that an earlier import has consumed is answered 404
C13_Witness ==
    /\ resp.op = "complete_upload" /\ resp.status = 404
    /\ resp.error = "File not found. It may have expired."
    /\ \E l \in LayerIds : layers[l].upload_status = "complete"

\* C14: when a complete-import has failed for want of a CRS, the same request
\* (same file handle, group and layer name) repeated with a source CRS
\* succeeds and yields a complete layer.
C14_RetryWithSourceCRS ==
    [][resp'.op = "complete_upload" =>
       \A fid \in 1..MaxFiles, name \in LayerNames, r \in CompleteInputs :
          (/\ CompleteUpload(fid, r[1], r[2], name, r[3], r[4], r[5], FALSE, r[6])
           /\ r[2] \in Groups /\ r[3] \in LayerTypeIds
           /\ r[4] \in ValidCrs /\ r[5] \in ValidCrs /\ r[6] = 0
           /\ StoredWithoutCrs(fid, r[1])
           /\ \E l \in LayerIds :
                 /\ layers[l].project_layer_group = r[2] /\ layers[l].name = name
                 /\ layers[l].upload_status = "failed"
                 /\ layers[l].upload_error = "No CRS defined in file and none provided")
             => /\ resp'.status = 200
                /\ \E l \in 1..Len(layers') :
                      layers'[l].name = name /\ layers'[l].upload_status = "complete"]_vars

\* C15: a complete-import of a dataset without CRS, with no source CRS given,
\* fails before any feature is persisted: the layer it created ends failed
\* with no feature row.
C15_NoAssumedCRS ==
    [][resp'.op = "complete_upload" =>
       \A fid \in 1..MaxFiles, name \in LayerNames, r \in CompleteInputs :
          (/\ r[4] = NoCrs
           /\ StoredWithoutCrs(fid, r[1])
           /\ Len(layers') = Len(layers) + 1
           /\ CompleteUpload(fid, r[1], r[2], name, r[3], r[4], r[5], FALSE, r[6]))
             => /\ resp'.status = 500
                /\ resp'.error = "No CRS defined in file and none provided"
                /\ layers'[Len(layers')].upload_status = "failed"
                /\ CountRows(rows', Len(layers')) = 0
                /\ rows' = rows]_vars

\* the failed import of a dataset that has rows to offer and no CRS
C15_Witness ==
    /\ resp.op = "complete_upload" /\ resp.status = 500 /\ resp.layer \in LayerIds
    /\ layers[resp.layer].upload_status = "failed"
    /\ CountRows(rows, resp.layer) = 0
    /\ \E f \in files : /\ f.file_id = resp.file /\ f.content.crs = NoCrs
                        /\ f.content.readable /\ Len(f.content.rows) >= 1

\* the stored working file of handle fid holds a zip archive
StoredArchive(fid) == \E f \in files : f.file_id = fid /\ f.content.archive

\* C17: an uploaded .zip archive is unpacked into a scratch directory before
\* the dataset is opened, in the upload step (CRS resolution) and in the
\* complete-import step alike.
C17_ArchiveExtracted ==
    /\ (resp.op = "upload" /\ resp.status = 200 /\ StoredArchive(resp.file))
          => resp.dir # 0
    /\ (resp.op = "complete_upload" /\ resp.layer # 0 /\ StoredArchive(resp.file))
          => resp.dir # 0

\* C18: a complete-import without layer_type_id, with an existing file handle,
\* an existing group and a free layer name, creates the layer and succeeds.
C18_LayerTypeOptional ==
    [][resp'.op = "complete_upload" =>
       \A fid \in 1..MaxFiles, name \in LayerNames, r \in CompleteInputs :
          (/\ CompleteUpload(fid, r[1], r[2], name, r[3], r[4], r[5], FALSE, r[6])
           /\ r[3] = NoType
           /\ StoredAt(files, fid, r[1]) # {}
           /\ r[2] \in Groups
           /\ ~NameTaken(layers, r[2], name))
             => /\ Len(layers') = Len(layers) + 1
                /\ resp'.status = 200]_vars

\* the dataset at a path with suffix ext and bytes c cannot be read: an
\* invalid archive, an archive whose .shp member is corrupt, a corrupt file
Unreadable(ext, c) ==
    IF ext = "zip" THEN ~c.valid_zip \/ (c.shp # "none" /\ ~c.readable)
    ELSE c.archive \/ ~c.readable

\* the answers of get_crs_from_file that carry the message of the reader:
\* str(e) of the reader, or "Error reading shapefile: " followed by it
ReaderMessages == {"read_error", "Error reading shapefile"}

\* C16: when the dataset cannot be read during CRS resolution, the answer
\* carries the message of the reader, and differs from the answer for a
\* readable dataset without CRS.
C16_ReadErrorReported ==
    [][resp'.op = "get_crs_from_file" =>
       \A r \in GetCrsInputs :
          (CallGetCrs(r[1], r[2], r[3]) /\ Unreadable(r[1], r[2]))
             => /\ ~resp'.has_crs
                /\ resp'.error \in ReaderMessages
                /\ resp'.error # "No CRS defined in file"]_vars

\* C19: a chunked read (with a well-formed chunk_id >= 1) of a layer that is
\* not public, by a caller who is anonymous or has no view permission for the
\* layer, is answered 403 and carries no feature.
C19_PrivateLayerDenied ==
    (/\ resp.op = "chunk" /\ resp.chunk_ok /\ resp.chunk_id >= 1
     /\ resp.layer \in LayerIds
     /\ ~layers[resp.layer].is_public
     /\ (~resp.auth \/ ~resp.can_view))
        => (resp.status = 403 /\ resp.features = <<>>)

\* C20: a chunked read or a full-collection read, whatever its answer,
\* changes no layer and no feature row.
C20_ReadsChangeNothing ==
    [][resp'.op \in {"chunk", "data"} => UNCHANGED <<layers, rows>>]_vars

\* a full-collection read that returned the features of a layer
C20_Witness ==
    /\ resp.op = "data" /\ resp.status = 200
    /\ Len(resp.features) >= 2

\* the scaled chunk size that stands for a chunk size of the source
ScaledSize(n) ==
    CASE n = 500 -> PolygonChunk
      [] n = 2000 -> LineChunk
      [] n = 10000 -> PointChunk

\* the chunk size the policy assigns to a layer type name
PolicySize ==
    [n \in {"Polygon", "LineString", "Point Layer"} |->
        CASE n = "Polygon" -> 500
          [] n = "LineString" -> 2000
          [] n = "Point Layer" -> 10000]

RECURSIVE ParseableRows(_)
ParseableRows(rs) ==
    IF rs = <<>> THEN <<>>
    ELSE IF Head(rs).geom_type = "None" THEN ParseableRows(Tail(rs))
         ELSE <<Head(rs)>> \o ParseableRows(Tail(rs))

\* what a caller of complete_upload can learn about an import: the answer of
\* import_file_to_layer and the row of the layer
ImportReport(imp, lid) ==
    [success |-> imp.success, count |-> imp.count, error |-> imp.error,
     layer |-> imp.layers[lid]]

\* C22: a file import skips a row whose geometry cannot be parsed, imports
\* every other row, and its result tells how many rows were imported and how
\* many were skipped: an import that skipped rows is told apart from the
\* import of the same dataset without those rows.
C22_SkippedRowsReported ==
    [][resp'.op = "complete_upload" =>
       \A fid \in 1..MaxFiles, name \in LayerNames, r \in CompleteInputs :
          \A f \in StoredAt(files, fid, r[1]) :
             (/\ ParseableRows(f.content.rows) # f.content.rows
              /\ resp'.status = 200
              /\ CompleteUpload(fid, r[1], r[2], name, r[3], r[4], r[5], FALSE, r[6]))
                => LET lid == Len(layers')
                       clean == [f.content EXCEPT !.rows = ParseableRows(f.content.rows)]
                       Run(c) == import_file_to_layer(
                                    Append(layers, NewLayer(r[2], r[3], name, FALSE, "importing")),
                                    rows, next_row_id, temp_dirs, next_dir, lid,
                                    f.ext, c, r[1], r[4], r[5], r[6])
                   IN /\ resp'.count = Len(ParseableRows(f.content.rows))
                      /\ CountRows(rows', lid) = Len(ParseableRows(f.content.rows))
                      /\ ImportReport(Run(f.content), lid) # ImportReport(Run(clean), lid)]_vars

\* C23: every persisted feature has a feature identifier, the caller's or a
\* generated one.
C23_EveryFeatureHasId ==
    \A i \in 1..Len(rows) : rows[i].feature_id.kind \in {"caller", "uuid"}

(***************************************************************************)
(* GeoJSON encoding of a stored feature and decoding by import_geojson.    *)
(* A JSON value of the key "geometry" is an object (a GeoJSON geometry), a *)
(* string (here: the text of a GeoJSON geometry) or null.                  *)
(***************************************************************************)
JsonObject(g) == [json |-> "object", geom |-> g]
JsonString(g) == [json |-> "string", geom |-> g]

\* LayerDataView.get: "geometry": json.loads(feature.geometry.json)
encode_chunk_feature(row) ==
    [type |-> "Feature", geometry |-> JsonObject(row.geometry), id |-> row.feature_id]

\* GeoJSONFeatureCollectionSerializer.get_features: 'geometry':
\* feature.geometry.json, the text itself and not the parsed value
encode_collection_feature(row) ==
    [type |-> "Feature", geometry |-> JsonString(row.geometry), id |-> row.feature_id]

\* import_geojson: GEOSGeometry(json.dumps(feature.get('geometry'))).
\* json.dumps of an object is the text of a GeoJSON geometry, which GEOS
\* parses; json.dumps of a string is a quoted text, which is neither WKT,
\* HEX nor JSON for GEOSGeometry and raises
decode_geometry(v) == IF v.json = "object" THEN v.geom ELSE BadGeom

\* the feature of an import_geojson body that a GeoJSON feature decodes to
decode_feature(f) == [geometry |-> decode_geometry(f.geometry), id |-> f.id]

\* C24: a stored feature encoded to GeoJSON, by the chunked read and by the
\* full-collection read, and decoded by the direct GeoJSON import, has the
\* geometry type it had.
C24_EncodeDecodeRoundTrip ==
    \A i \in 1..Len(rows) :
        /\ decode_feature(encode_chunk_feature(rows[i])).geometry.geom_type
              = rows[i].geometry.geom_type
        /\ decode_feature(encode_collection_feature(rows[i])).geometry.geom_type
              = rows[i].geometry.geom_type

\* the file type the detection contract assigns to a suffix
DetectionTable(suffix) ==
    CASE suffix \in {"zip", "shp"} -> "shp"
      [] suffix = "kml" -> "kml"
      [] suffix = "sqlite" -> "sqlite"
      [] OTHER -> "None"

\* C25: the detected file type depends on the file name suffix alone (zip and
\* shp: shapefile, kml, sqlite, anything else: unsupported), and an upload
\* detected unsupported is answered 400 with nothing stored, extracted or
\* parsed.
C25_DetectionAndRejection ==
    [][resp'.op = "upload" =>
       \A u \in UploadInputs :
          FileUpload(u[1], u[2])
             => /\ detect_file_type(u[1]) = DetectionTable(u[1])
                /\ (DetectionTable(u[1]) = "None")
                      => /\ resp'.status = 400
                         /\ UNCHANGED <<files, next_file_id, temp_dirs, next_dir>>
                /\ (DetectionTable(u[1]) # "None")
                      => (resp'.status = 200 /\ \E f \in files' :
                             f.file_id = resp'.file /\ f.ext = DetectionTable(u[1]))]_vars

\* an upload with an unsupported suffix was rejected and nothing is stored
C25_Witness ==
    /\ resp.op = "upload" /\ resp.status = 400
    /\ files = {} /\ temp_dirs = {} /\ next_file_id = 1

\* the place of an upload_status in the lifecycle
StatusRank(st) ==
    CASE st = "pending" -> 1
      [] st = "processing" -> 2
      [] st = "crs_needed" -> 3
      [] st = "importing" -> 4
      [] st \in {"complete", "failed"} -> 5

\* C28: the upload_status of a layer never moves backward in pending,
\* processing, crs_needed, importing, complete | failed, and no request
\* changes the upload_status or the upload_error of a layer that is complete
\* or failed.
C28_StatusOnlyForward ==
    [][\A l \in LayerIds :
          /\ l \in 1..Len(layers')
          /\ StatusRank(layers'[l].upload_status) >= StatusRank(layers[l].upload_status)
          /\ layers[l].upload_status \in {"complete", "failed"}
                => /\ layers'[l].upload_status = layers[l].upload_status
                   /\ layers'[l].upload_error = layers[l].upload_error]_vars

\* what the import of worker t leaves when it runs alone on a fresh database
ImportAlone(t) ==
    import_file_to_layer(<<tasks[t].obj>>, <<>>, 1, {}, 1, 1, "shp", tasks[t].content,
                         "shp", tasks[t].source_crs, "EPSG:4326", tasks[t].fail_at)

\* the rows of layer lid in table R, primary key and owner left out
RECURSIVE LayerFeatures(_, _)
LayerFeatures(R, lid) ==
    IF R = <<>> THEN <<>>
    ELSE IF Head(R).project_layer = lid
         THEN <<[geometry |-> Head(R).geometry, bbox |-> Head(R).bbox,
                 feature_id |-> Head(R).feature_id]>> \o LayerFeatures(Tail(R), lid)
         ELSE LayerFeatures(Tail(R), lid)

C27_ChunkResponseConsistent ==
    (resp.op = "chunk" /\ resp.status = 200)
       => LET size == get_chunk_size_for_layer(layers[resp.layer])
          IN /\ resp.features_count = Len(resp.features)
             /\ (resp.next_chunk # 0) <=> (resp.chunk_id < CeilDiv(resp.total_count, size))

\* C29: once no feature-creating or feature-deleting request is in flight,
\* the feature_count of a layer no import wrote to is the number of its rows.
C29_NoLostCount ==
    (\A t \in Tasks : tasks[t] = Idle)
       => \A l \in LayerIds :
             layers[l].upload_status = "pending" => layers[l].feature_count = CountRows(rows, l)

\* C30: with no write in between, the chunk_ids the project constructor
\* advertises for a layer are the chunk ids a reader visits from chunk 1 by
\* following next_chunk, <<1>> for an empty layer, and both sides use the
\* same chunk size.
C30_AdvertisedChunksAreVisited ==
    \A l \in LayerIds :
       /\ chunk_ids(layers[l], CountRows(rows, l)) = follow_next_chunk(layers, rows, l, 1)
       /\ CountRows(rows, l) = 0 => chunk_ids(layers[l], 0) = <<1>>
       /\ constructor_chunk_size(layers[l]) = get_chunk_size_for_layer(layers[l])

\* a reader has followed next_chunk from chunk 1 to the last chunk of a layer
\* of several chunks, next to an empty layer
C30_Witness ==
    /\ resp.op = "chunk" /\ resp.status = 200 /\ resp.next_chunk = 0
    /\ scan.done /\ scan.layer = resp.layer /\ scan.next - 1 = resp.chunk_id
    /\ resp.chunk_id >= 2
    /\ Len(chunk_ids(layers[resp.layer], CountRows(rows, resp.layer))) = resp.chunk_id
    /\ \E m \in LayerIds : CountRows(rows, m) = 0

====
